---- MODULE Spec2Model ----
(***************************************************************************)
(* Tortillas: the test scheduler (test_runner.py: run_tests, _run) and the *)
(* log analysis (log_analyzer.py: TestResult, LogAnalyzer).                *)
(*                                                                         *)
(* Text is a sequence of one-character strings, so that slicing, prefix    *)
(* tests, int() and repr() are computed the way Python computes them.      *)
(***************************************************************************)
EXTENDS Integers, Sequences, FiniteSets, TLC

\* ------------------------------------------------------------------ bounds
MaxLines == 2        \* captured lines in one analysed log (all buckets)
MaxBuckets == 2      \* buckets of one analysed log_data
NumTests == 3        \* N: tests handed to run_tests
NumThreads == 2      \* K: config.threads
MaxAttempts == 2     \* attempts of one test (retries are finite)
MaxRaises == 1       \* worker threads that end in an uncaught exception

\* ------------------------------------------------------------- Python text
NL == "\n"



\* s.startswith(p)
StartsWith(s, p) == Len(s) >= Len(p) /\ SubSeq(s, 1, Len(p)) = p

\* s[a:-k] for k > 0: the end index len(s)-k is clipped at 0
SliceNeg(s, a, k) ==
    LET e == IF Len(s) - k < 0 THEN 0 ELSE Len(s) - k
    IN  IF e <= a THEN <<>> ELSE SubSeq(s, a + 1, e)

\* ''.join(parts)
RECURSIVE Join(_)
Join(parts) == IF parts = <<>> THEN <<>> ELSE Head(parts) \o Join(Tail(parts))

\* sep.join(parts)
RECURSIVE JoinSep(_, _)
JoinSep(parts, sep) ==
    IF parts = <<>> THEN <<>>
    ELSE IF Len(parts) = 1 THEN Head(parts)
    ELSE Head(parts) \o sep \o JoinSep(Tail(parts), sep)

\* repr(s) of a str: quoted, the line terminator escaped
RECURSIVE Escape(_)
Escape(s) ==
    IF s = <<>> THEN <<>>
    ELSE (IF Head(s) = NL THEN <<"\\", "n">> ELSE <<Head(s)>>) \o Escape(Tail(s))

Repr(s) == <<"'">> \o Escape(s) \o <<"'">>

Digits == <<"0", "1", "2", "3", "4", "5", "6", "7", "8", "9">>

IsDigit(c) == \E d \in 1..10 : Digits[d] = c

DigitVal(c) == (CHOOSE d \in 1..10 : Digits[d] = c) - 1

IsSpace(c) == c \in {" ", NL, "\t", "\r"}

RECURSIVE LStrip(_)
LStrip(s) == IF s # <<>> /\ IsSpace(Head(s)) THEN LStrip(Tail(s)) ELSE s

RECURSIVE RStrip(_)
RStrip(s) ==
    IF s # <<>> /\ IsSpace(s[Len(s)]) THEN RStrip(SubSeq(s, 1, Len(s) - 1)) ELSE s

RECURSIVE DigitsVal(_, _)
DigitsVal(s, acc) ==
    IF s = <<>> THEN acc ELSE DigitsVal(Tail(s), 10 * acc + DigitVal(Head(s)))

\* int(s): surrounding whitespace ignored, an optional sign, then digits;
\* ok = FALSE stands for ValueError
IntOf(s) ==
    LET t == RStrip(LStrip(s))
        signed == t # <<>> /\ Head(t) \in {"-", "+"}
        body == IF signed THEN Tail(t) ELSE t
        good == body # <<>> /\ \A i \in 1..Len(body) : IsDigit(body[i])
    IN  IF ~good THEN [ok |-> FALSE, val |-> 0]
        ELSE [ok |-> TRUE,
              val |-> IF signed /\ Head(t) = "-" THEN 0 - DigitsVal(body, 0)
                      ELSE DigitsVal(body, 0)]

\* str(n) of an int
RECURSIVE StrNat(_)
StrNat(n) ==
    IF n < 10 THEN <<Digits[n + 1]>> ELSE StrNat(n \div 10) \o <<Digits[(n % 10) + 1]>>

StrInt(n) == IF n < 0 THEN <<"-">> \o StrNat(0 - n) ELSE StrNat(n)

\* [f(x) for x in s]
MapSeq(s, F(_)) == [i \in 1..Len(s) |-> F(s[i])]

InSeq(x, s) == \E i \in 1..Len(s) : s[i] = x

\* ------------------------------------------------------ log_analyzer.py
\* TestStatus members; "None" is Python's None for an optional status
Statuses == {"PANIC", "FAILED", "TIMEOUT", "SUCCESS", "DISABLED", "NOT_RUN"}

WatchdogStatuses == {"FOUND", "TIMEOUT", "STOPPED"}

Modes == {"add_as_error", "add_as_error_join", "add_as_error_last", "retry",
          "expect_stdout", "exit_codes"}

\* the marker that prefixes guest lines meant as comparable stdout
TORTILLAS_EXPECT_PREFIX == <<"#", "#", "E", "X", "P", "E", "C", "T", "#", "#">>

\* error strings: <<the constant part of the f-string, the formatted argument>>;
\* a captured line taken as an error is <<"", line>>
ErrStopped == <<"Test killed, because no more interrupts were coming", <<>>>>

ErrTimeout == <<"Test execution timeout", <<>>>>

ErrMissing == <<"Missing exit code!", <<>>>>

ErrParse(line) == <<"Failed to parse exit code ", line>>

ErrUnexpected(line) == <<"Unexpected exit code ", line>>

ErrExpectedCodes(expect) ==
    <<"Expected exit code(s): ", JoinSep(MapSeq(expect, StrInt), <<",", " ">>)>>

ErrExpectedOut(expected) == <<"Expected output:\n", expected>>

ErrActualOut(actual) == <<"Actual output:\n", actual>>

ErrLine(line) == <<"", line>>

\* the fenced block: three grave accents open it, the joined lines follow
ErrJoined(logs) == <<"fenced block", Join(logs)>>

ErrRetry(name) == <<"Retry caused by ", <<name>>>>

\* TestResult(status)
TestResult(status) == [status |-> status, errors |-> <<>>, retry |-> FALSE]

\* TestResult._set_status
SetStatus(r, status) == IF status = "None" THEN r ELSE [r EXCEPT !.status = status]

\* TestResult.add_errors
AddErrors(r, errors, status) ==
    IF errors = <<>> THEN r
    ELSE SetStatus([r EXCEPT !.errors = @ \o errors], status)

\* variant: the last line of the bucket cut like the other lines
RECURSIVE ActualStdoutUniform(_, _)
ActualStdoutUniform(logs, i) ==
    IF i > Len(logs) THEN <<>>
    ELSE (IF ~StartsWith(logs[i], TORTILLAS_EXPECT_PREFIX) THEN <<>>
          ELSE <<SliceNeg(logs[i], Len(TORTILLAS_EXPECT_PREFIX), 1)>>)
         \o ActualStdoutUniform(logs, i + 1)

\* the list actual_stdout built by the loop of check_expect_stdout, from index i
RECURSIVE ActualStdout(_, _)
ActualStdout(logs, i) ==
    IF i > Len(logs) THEN <<>>
    ELSE (IF ~StartsWith(logs[i], TORTILLAS_EXPECT_PREFIX) THEN <<>>
          ELSE IF i = Len(logs)
               THEN <<SliceNeg(logs[i], Len(TORTILLAS_EXPECT_PREFIX), 2)>>
               ELSE <<SliceNeg(logs[i], Len(TORTILLAS_EXPECT_PREFIX), 1)>>)
         \o ActualStdout(logs, i + 1)

\* TestResult.check_expect_stdout; expect_stdout <<>> is the falsy None or empty string
CheckExpectStdout(r, logs, expect_stdout, status) ==
    IF expect_stdout = <<>> THEN r
    ELSE LET actual == Repr(Join(ActualStdout(logs, 1)))
             expected == Repr(expect_stdout)
         IN  IF actual # expected
             THEN SetStatus([r EXCEPT !.errors =
                               @ \o <<ErrExpectedOut(expected), ErrActualOut(actual)>>],
                            status)
             ELSE r

\* variant: a line that is no number sets the status of the rule, not FAILED
RECURSIVE ExitCodeLoopParseSetsStatus(_, _, _, _, _, _)
ExitCodeLoopParseSetsStatus(r, exit_codes, expect_exit_codes, status, i, unexpected) ==
    IF i > Len(exit_codes)
    THEN IF unexpected
         THEN SetStatus([r EXCEPT !.errors = Append(@, ErrExpectedCodes(expect_exit_codes))],
                        status)
         ELSE r
    ELSE LET parsed == IntOf(exit_codes[i])
         IN  IF ~parsed.ok
             THEN SetStatus([r EXCEPT !.errors = Append(@, ErrParse(exit_codes[i])),
                                      !.retry = TRUE],
                            status)
             ELSE IF ~InSeq(parsed.val, expect_exit_codes)
             THEN ExitCodeLoopParseSetsStatus(
                      [r EXCEPT !.errors = Append(@, ErrUnexpected(exit_codes[i]))],
                      exit_codes, expect_exit_codes, status, i + 1, TRUE)
             ELSE ExitCodeLoopParseSetsStatus(r, exit_codes, expect_exit_codes, status,
                                              i + 1, unexpected)

\* the for loop of check_exit_codes from index i, with the flag
\* unexpected_exit_codes as found so far
RECURSIVE ExitCodeLoop(_, _, _, _, _, _)
ExitCodeLoop(r, exit_codes, expect_exit_codes, status, i, unexpected) ==
    IF i > Len(exit_codes)
    THEN IF unexpected
         THEN SetStatus([r EXCEPT !.errors = Append(@, ErrExpectedCodes(expect_exit_codes))],
                        status)
         ELSE r
    ELSE LET parsed == IntOf(exit_codes[i])
         IN  IF ~parsed.ok
             THEN [r EXCEPT !.errors = Append(@, ErrParse(exit_codes[i])),
                            !.status = "FAILED",
                            !.retry = TRUE]
             ELSE IF ~InSeq(parsed.val, expect_exit_codes)
             THEN ExitCodeLoop([r EXCEPT !.errors = Append(@, ErrUnexpected(exit_codes[i]))],
                               exit_codes, expect_exit_codes, status, i + 1, TRUE)
             ELSE ExitCodeLoop(r, exit_codes, expect_exit_codes, status, i + 1, unexpected)

\* variant: check_exit_codes without the return on PANIC
CheckExitCodesNoPanicGuard(r, exit_codes, expect_exit_codes, status) ==
    IF exit_codes = <<>>
    THEN LET missing == [r EXCEPT !.errors = Append(@, ErrMissing)]
         IN  IF r.status = "SUCCESS"
             THEN [missing EXCEPT !.status = "FAILED"]
             ELSE ExitCodeLoop(missing, exit_codes, expect_exit_codes, status, 1, FALSE)
    ELSE ExitCodeLoop(r, exit_codes, expect_exit_codes, status, 1, FALSE)

\* variant: missing exit codes fail the test whatever its status was
CheckExitCodesMissingAlwaysFails(r, exit_codes, expect_exit_codes, status) ==
    IF r.status = "PANIC" THEN r
    ELSE IF exit_codes = <<>>
    THEN [r EXCEPT !.errors = Append(@, ErrMissing), !.status = "FAILED"]
    ELSE ExitCodeLoop(r, exit_codes, expect_exit_codes, status, 1, FALSE)

\* TestResult.check_exit_codes
CheckExitCodes(r, exit_codes, expect_exit_codes, status) ==
    IF r.status = "PANIC" THEN r
    ELSE IF exit_codes = <<>>
    THEN LET missing == [r EXCEPT !.errors = Append(@, ErrMissing)]
         IN  IF r.status = "SUCCESS"
             THEN [missing EXCEPT !.status = "FAILED"]
             ELSE ExitCodeLoop(missing, exit_codes, expect_exit_codes, status, 1, FALSE)
    ELSE ExitCodeLoop(r, exit_codes, expect_exit_codes, status, 1, FALSE)

\* variant: the timeout is an error also when the spec expects it
AnalyzeWatchdogIgnoresExpect(spec, ir_watchdog_status) ==
    LET r0 == TestResult("SUCCESS")
        r1 == IF ir_watchdog_status = "STOPPED"
              THEN AddErrors(r0, <<ErrStopped>>, "None") ELSE r0
    IN  IF ir_watchdog_status = "TIMEOUT"
        THEN AddErrors(r1, <<ErrTimeout>>, "TIMEOUT")
        ELSE r1

\* analyze up to the loop over log_data: the watchdog outcome
AnalyzeWatchdog(spec, ir_watchdog_status) ==
    LET r0 == TestResult("SUCCESS")
        r1 == IF ir_watchdog_status = "STOPPED"
              THEN AddErrors(r0, <<ErrStopped>>, "None") ELSE r0
    IN  IF ir_watchdog_status = "TIMEOUT" /\ ~spec.expect_timeout
        THEN AddErrors(r1, <<ErrTimeout>>, "TIMEOUT")
        ELSE r1

\* variant: the expected exit codes without the default [0]
ExpectExitCodesNoDefault(spec) == spec.expect_exit_codes

\* self.test_spec.expect_exit_codes or [0]
ExpectExitCodes(spec) ==
    IF spec.expect_exit_codes = <<>> THEN <<0>> ELSE spec.expect_exit_codes

\* one iteration of the loop of analyze: the entry found for the bucket's name,
\* applied to the bucket's lines
ApplyEntry(r, config_entry, logs, spec) ==
    LET status == config_entry.set_status
    IN  CASE config_entry.mode = "add_as_error" ->
                 AddErrors(r, MapSeq(logs, ErrLine), status)
          [] config_entry.mode = "add_as_error_join" ->
                 AddErrors(r, <<ErrJoined(logs)>>, status)
          [] config_entry.mode = "add_as_error_last" ->
                 AddErrors(r, MapSeq(SubSeq(logs, 1, IF Len(logs) < 1 THEN Len(logs) ELSE 1),
                                        ErrLine),
                           status)
          [] config_entry.mode = "retry" ->
                 [AddErrors(r, <<ErrRetry(config_entry.name)>>, "None")
                     EXCEPT !.retry = TRUE]
          [] config_entry.mode = "expect_stdout" ->
                 CheckExpectStdout(r, logs, spec.expect_stdout, status)
          [] config_entry.mode = "exit_codes" ->
                 CheckExitCodes(r, logs, ExpectExitCodes(spec), status)
          [] OTHER -> r

\* LogAnalyzer._get_config_entry_by_name: the first entry of that name
GetConfigEntryByName(config, name) ==
    config[CHOOSE i \in 1..Len(config) :
              config[i].name = name /\ \A j \in 1..(i - 1) : config[j].name # name]

\* the loop of analyze over log_data.items() from bucket i; log_data is the
\* sequence of <<name, lines>> in the dict's iteration order
RECURSIVE AnalyzeLoop(_, _, _, _, _)
AnalyzeLoop(r, config, log_data, spec, i) ==
    IF i > Len(log_data) THEN r
    ELSE AnalyzeLoop(ApplyEntry(r, GetConfigEntryByName(config, log_data[i][1]),
                                log_data[i][2], spec),
                     config, log_data, spec, i + 1)

\* LogAnalyzer.analyze
Analyze(config, spec, log_data, ir_watchdog_status) ==
    IF spec.disabled THEN TestResult("DISABLED")
    ELSE AnalyzeLoop(AnalyzeWatchdog(spec, ir_watchdog_status), config, log_data, spec, 1)

\* ------------------------------------------------- inputs of the analysis
\* TestSpec: the fields the analysis reads
TestSpecs ==
    [disabled : BOOLEAN,
     expect_timeout : BOOLEAN,
     expect_stdout : {<<>>, <<"a", "b">>},
     expect_exit_codes : {<<>>, <<1, 2>>}]

\* AnalyzeConfigEntry: one bucket name per mode, the name being the mode's
SetStatusOf(mode) ==
    CASE mode = "add_as_error" -> {"PANIC"}
      [] mode = "add_as_error_join" -> {"FAILED"}
      [] mode = "add_as_error_last" -> {"FAILED"}
      [] mode = "retry" -> {"None"}
      [] mode = "expect_stdout" -> {"None", "FAILED"}
      [] mode = "exit_codes" -> {"None", "FAILED", "PANIC"}

ConfigEntries ==
    UNION {[name : {m}, mode : {m}, set_status : SetStatusOf(m)] : m \in Modes}

SeqsUpTo(S, n) == UNION {[1..k -> S] : k \in 0..n}

ModeRank(mode) ==
    CASE mode = "add_as_error" -> 1
      [] mode = "add_as_error_join" -> 2
      [] mode = "add_as_error_last" -> 3
      [] mode = "retry" -> 4
      [] mode = "expect_stdout" -> 5
      [] mode = "exit_codes" -> 6

\* the configurations: entries of distinct names, declared in one fixed order
\* of the modes (analyze reads the order of self.config only to find the
\* first entry of a name; the order of log_data is free)
Configs ==
    {c \in SeqsUpTo(ConfigEntries, MaxBuckets) :
        /\ c # <<>>
        /\ \A i, j \in 1..Len(c) : i < j => ModeRank(c[i].mode) < ModeRank(c[j].mode)}

\* captured lines by the mode of the rule that reads the bucket
ExitCodeLines == {<<"0">>, <<"1">>, <<"x">>}

StdoutLines ==
    {TORTILLAS_EXPECT_PREFIX \o <<"a">>,
     TORTILLAS_EXPECT_PREFIX \o <<"a", NL>>,
     TORTILLAS_EXPECT_PREFIX \o <<"b", NL>>,
     TORTILLAS_EXPECT_PREFIX \o <<"b", NL, NL>>,
     <<"z", NL>>}

OtherLines == {<<"p", NL>>}

LinesOf(mode) ==
    CASE mode = "exit_codes" -> ExitCodeLines
      [] mode = "expect_stdout" -> StdoutLines
      [] OTHER -> OtherLines

\* ------------------------------------------------------------------ state
VARIABLES
    a_spec,       \* analyze: self.test_spec
    a_config,     \* analyze: self.config
    a_wd,         \* analyze: ir_watchdog_status
    a_seen,       \* analyze: the items of log_data iterated so far, in order
    a_result,     \* analyze: result
    a_pc,         \* analyze: "start", "loop" or "done"
    test_queue,     \* run_tests: the list test_queue
    running_tests,  \* run_tests: the keys of the dict running_tests
    lock,           \* run_tests: the holder of lock, or "free"
    mpc,            \* run_tests: where the main thread is
    mi,             \* run_tests: iterations done of the first for loop
    tspec,          \* test.spec of each test
    result,         \* test.result of each test
    counters,       \* progress_bar: the counters RUNNING, SUCCESS and FAIL
    started,        \* threads started for each test
    wpc,            \* _run: where each thread is
    alive,          \* _run: what qemu.is_alive() returned to each thread
    wres,           \* _run: res, the watchdog outcome of each thread
    wlog,           \* _run: parser.log_data of each thread
    session,        \* _run: whether the thread's QemuInterface is open
    trace,          \* the steps each thread has taken, in order
    proc,           \* main: where the main thread is outside run_tests
    exit_code,      \* the exit status of the process, "none" while it runs
    tests,          \* main: the list tests
    bsession,       \* create_snapshot: whether its QemuInterface is open
    balive,         \* create_snapshot: what qemu.is_alive() returned
    bres,           \* create_snapshot: res, the watchdog outcome of the boot
    savevm,         \* create_snapshot: whether savevm was sent to the monitor
    copied,         \* create_snapshot: whether SWEB-snapshot.qcow2 was written
    si              \* main: tests read so far by the any(...) of success

avars == <<a_spec, a_config, a_wd, a_seen, a_result, a_pc>>

svars == <<test_queue, running_tests, lock, mpc, mi, tspec, result, counters, started,
           wpc, alive, wres, wlog, session, trace>>

pvars == <<proc, exit_code, tests, bsession, balive, bres, savevm, copied, si>>

vars == <<avars, svars, pvars>>

Tests == 1..NumTests

Threads == Tests \X (1..MaxAttempts)

\* a Test as constructed: a result that records nothing yet
FreshResult == TestResult("NOT_RUN")

\* a TestSpec with every field at its default
DefaultSpec ==
    [disabled |-> FALSE, expect_timeout |-> FALSE, expect_stdout |-> <<>>,
     expect_exit_codes |-> <<>>]

\* the state of run_tests before it is called
SchedIdle ==
    /\ test_queue = <<>>
    /\ running_tests = {}
    /\ lock = "free"
    /\ mpc = "idle"
    /\ mi = 0
    /\ tspec = [t \in Tests |-> DefaultSpec]
    /\ result = [t \in Tests |-> FreshResult]
    /\ counters = [RUNNING |-> 0, SUCCESS |-> 0, FAIL |-> 0]
    /\ started = [t \in Tests |-> 0]
    /\ wpc = [th \in Threads |-> "idle"]
    /\ alive = [th \in Threads |-> "unknown"]
    /\ wres = [th \in Threads |-> "WAITING"]
    /\ wlog = [th \in Threads |-> <<>>]
    /\ session = [th \in Threads |-> FALSE]
    /\ trace = [th \in Threads |-> <<>>]

\* run_tests is called as a function: main is not running
ProcIdle ==
    /\ proc = "lib"
    /\ exit_code = "none"
    /\ bsession = FALSE
    /\ balive = "unknown"
    /\ bres = "WAITING"
    /\ savevm = FALSE
    /\ copied = FALSE
    /\ si = 0

\* --------------------------------------------- LogAnalyzer.analyze, by step
SeenNames == {a_seen[i][1] : i \in 1..Len(a_seen)}

RECURSIVE SumLens(_)
SumLens(items) == IF items = <<>> THEN 0 ELSE Len(Head(items)[2]) + SumLens(Tail(items))

InitAnalyze ==
    /\ a_spec \in TestSpecs
    /\ a_config \in Configs
    /\ a_wd \in WatchdogStatuses
    /\ a_seen = <<>>
    /\ a_result = TestResult("NOT_RUN")
    /\ a_pc = "start"
    /\ SchedIdle
    /\ ProcIdle
    /\ tests = <<>>

\* variant: analyze without the check of test_spec.disabled
A_StartIgnoresDisabled ==
    /\ a_pc = "start"
    /\ a_result' = AnalyzeWatchdog(a_spec, a_wd)
    /\ a_pc' = "loop"
    /\ UNCHANGED <<a_spec, a_config, a_wd, a_seen, svars, pvars>>

\* analyze up to the loop: a disabled spec returns at once
A_Start ==
    /\ a_pc = "start"
    /\ IF a_spec.disabled
       THEN a_result' = TestResult("DISABLED") /\ a_pc' = "done"
       ELSE a_result' = AnalyzeWatchdog(a_spec, a_wd) /\ a_pc' = "loop"
    /\ UNCHANGED <<a_spec, a_config, a_wd, a_seen, svars, pvars>>

\* one iteration of the loop: the next item of log_data
A_Rule ==
    /\ a_pc = "loop"
    /\ Len(a_seen) < MaxBuckets
    /\ \E i \in 1..Len(a_config) :
         /\ a_config[i].name \notin SeenNames
         /\ \E logs \in SeqsUpTo(LinesOf(a_config[i].mode), MaxLines - SumLens(a_seen)) :
              /\ a_result' = ApplyEntry(a_result,
                                        GetConfigEntryByName(a_config, a_config[i].name),
                                        logs, a_spec)
              /\ a_seen' = Append(a_seen, <<a_config[i].name, logs>>)
    /\ UNCHANGED <<a_spec, a_config, a_wd, a_pc, svars, pvars>>

\* log_data is exhausted: return result
A_Return ==
    /\ a_pc = "loop"
    /\ a_pc' = "done"
    /\ UNCHANGED <<a_spec, a_config, a_wd, a_seen, a_result, svars, pvars>>

NextAnalyze == A_Start \/ A_Rule \/ A_Return

SpecAnalyze == InitAnalyze /\ [][NextAnalyze]_vars

\* ------------------------------------------- test_runner.py: run_tests, _run
\* the analyze configuration the runs are analysed with
SchedConfig ==
    <<[name |-> "add_as_error", mode |-> "add_as_error", set_status |-> "PANIC"],
      [name |-> "retry", mode |-> "retry", set_status |-> "None"],
      [name |-> "exit_codes", mode |-> "exit_codes", set_status |-> "PANIC"]>>

\* the tests main hands to run_tests are enabled (disabled ones are filtered
\* out before); the first one expects its timeout
SchedSpecOf(t) ==
    [disabled |-> FALSE, expect_timeout |-> (t = 1), expect_stdout |-> <<>>,
     expect_exit_codes |-> <<>>]

\* what the parser hands back for one attempt: the exit code 0, no exit code,
\* a line in the bucket of the retry rule, or an exit code that is no number
LogExit0 == <<<<"exit_codes", <<<<"0">>>>>>>>

LogNoExit == <<<<"exit_codes", <<>>>>>>

LogRetry == <<<<"retry", <<<<"p", NL>>>>>>, <<"exit_codes", <<<<"0">>>>>>>>

LogBadExit == <<<<"exit_codes", <<<<"x">>, <<"1">>>>>>>>

\* the guest prints its exit code when it finishes: an attempt whose watchdog
\* did not find the finish interrupt has captured none
SchedLogs(res) ==
    IF res = "FOUND" THEN {LogExit0, LogRetry, LogBadExit} ELSE {LogNoExit}

\* a kernel panic line before the exit code; the exit code 0 with the other
\* buckets of the configuration present and empty
LogPanic == <<<<"add_as_error", <<<<"p", NL>>>>>>, <<"exit_codes", <<<<"0">>>>>>>>

LogEmptyBuckets ==
    <<<<"add_as_error", <<>>>>, <<"retry", <<>>>>, <<"exit_codes", <<<<"0">>>>>>>>

\* the logs of the campaigns started from main have these two in addition
MainLogs(res) == IF res = "FOUND" THEN {LogPanic, LogEmptyBuckets} ELSE {}

ParserLogs(res) == SchedLogs(res) \cup (IF proc = "lib" THEN {} ELSE MainLogs(res))

\* the analysis by step is not running
AnalyzeIdle ==
    /\ a_spec = DefaultSpec
    /\ a_config = SchedConfig
    /\ a_wd = "WAITING"
    /\ a_seen = <<>>
    /\ a_result = FreshResult
    /\ a_pc = "idle"

\* test_queue = [test for test in tests]; running_tests = {}
Init ==
    /\ AnalyzeIdle
    /\ ProcIdle
    /\ tests = [i \in Tests |-> i]
    /\ tspec = [t \in Tests |-> SchedSpecOf(t)]
    /\ test_queue = [i \in Tests |-> i]
    /\ running_tests = {}
    /\ lock = "free"
    /\ mpc = "for"
    /\ mi = 0
    /\ result = [t \in Tests |-> FreshResult]
    /\ counters = [RUNNING |-> 0, SUCCESS |-> 0, FAIL |-> 0]
    /\ started = [t \in Tests |-> 0]
    /\ wpc = [th \in Threads |-> "idle"]
    /\ alive = [th \in Threads |-> "unknown"]
    /\ wres = [th \in Threads |-> "WAITING"]
    /\ wlog = [th \in Threads |-> <<>>]
    /\ session = [th \in Threads |-> FALSE]
    /\ trace = [th \in Threads |-> <<>>]

\* run_test: under the lock, pop the last test, count it as running, record
\* its thread and start it
RunTest ==
    /\ lock = "free"
    /\ test_queue # <<>>
    /\ LET test == test_queue[Len(test_queue)]
       IN  /\ started[test] < MaxAttempts
           /\ test_queue' = SubSeq(test_queue, 1, Len(test_queue) - 1)
           /\ counters' = [counters EXCEPT !.RUNNING = @ + 1]
           /\ running_tests' = running_tests \cup {test}
           /\ started' = [started EXCEPT ![test] = @ + 1]
           /\ wpc' = [wpc EXCEPT ![<<test, started[test] + 1>>] = "open"]
    /\ UNCHANGED <<lock, tspec, result, alive, wres, wlog, session, trace>>

\* for _ in range(config.threads): if test_queue: run_test(test_queue)
M_For ==
    /\ mpc = "for"
    /\ mi < NumThreads
    /\ IF test_queue # <<>>
       THEN RunTest
       ELSE UNCHANGED <<test_queue, counters, running_tests, started, wpc,
                        lock, tspec, result, alive, wres, wlog, session, trace>>
    /\ mi' = mi + 1
    /\ UNCHANGED <<mpc, avars, pvars>>

M_ForEnd ==
    /\ mpc = "for"
    /\ mi = NumThreads
    /\ mpc' = "while_queue"
    /\ UNCHANGED <<pvars, avars, test_queue, running_tests, lock, mi, tspec, result,
                   counters, started, wpc, alive, wres, wlog, session, trace>>

\* while test_queue or running_tests: the left operand is read first
M_WhileQueue ==
    /\ mpc = "while_queue"
    /\ mpc' = IF test_queue # <<>> THEN "body" ELSE "while_running"
    /\ UNCHANGED <<pvars, avars, test_queue, running_tests, lock, mi, tspec, result,
                   counters, started, wpc, alive, wres, wlog, session, trace>>

\* ... and the right operand only when the left one was empty
M_WhileRunning ==
    /\ mpc = "while_running"
    /\ mpc' = IF running_tests # {} THEN "body" ELSE "returned"
    /\ UNCHANGED <<pvars, avars, test_queue, running_tests, lock, mi, tspec, result,
                   counters, started, wpc, alive, wres, wlog, session, trace>>

\* progress_bar.refresh(); if not test_queue: time.sleep(1); continue
M_Body ==
    /\ mpc = "body"
    /\ mpc' = IF test_queue = <<>> THEN "while_queue" ELSE "if_len"
    /\ UNCHANGED <<pvars, avars, test_queue, running_tests, lock, mi, tspec, result,
                   counters, started, wpc, alive, wres, wlog, session, trace>>

\* variant: the bound on the in-flight runs compared with <= instead of <
M_IfLenOffByOne ==
    /\ mpc = "if_len"
    /\ mpc' = IF Cardinality(running_tests) <= NumThreads THEN "run_test" ELSE "while_queue"
    /\ UNCHANGED <<pvars, avars, test_queue, running_tests, lock, mi, tspec, result,
                   counters, started, wpc, alive, wres, wlog, session, trace>>

\* if len(running_tests) < config.threads
M_IfLen ==
    /\ mpc = "if_len"
    /\ mpc' = IF Cardinality(running_tests) < NumThreads THEN "run_test" ELSE "while_queue"
    /\ UNCHANGED <<pvars, avars, test_queue, running_tests, lock, mi, tspec, result,
                   counters, started, wpc, alive, wres, wlog, session, trace>>

\* run_test(test_queue); time.sleep(0.0001)
M_RunTest ==
    /\ mpc = "run_test"
    /\ RunTest
    /\ mpc' = "while_queue"
    /\ UNCHANGED <<mi, avars, pvars>>

\* ----------------------------------------------------------- _run, by step
\* a result flagged for retry is allowed only while the test has attempts left
MayRetry(th) == th[2] < MaxAttempts

Step(th, from, to, name) ==
    /\ wpc[th] = from
    /\ wpc' = [wpc EXCEPT ![th] = to]
    /\ trace' = [trace EXCEPT ![th] = Append(@, name)]

\* _clean_tmp_dir, cp of the snapshot, with QemuInterface(...) as qemu
W_Open(th) ==
    /\ Step(th, "open", "is_alive", "open")
    /\ session' = [session EXCEPT ![th] = TRUE]
    /\ UNCHANGED <<pvars, avars, alive, test_queue, running_tests, lock, mpc, mi, tspec, result,
                   counters, started, wres, wlog>>

\* variant: the VM is not alive and the result is not flagged for retry
W_NotAliveNoFlag(th) ==
    /\ MayRetry(th)
    /\ wpc[th] = "is_alive"
    /\ wpc' = [wpc EXCEPT ![th] = "callback_not_alive"]
    /\ alive' = [alive EXCEPT ![th] = "no"]
    /\ UNCHANGED <<pvars, avars, test_queue, running_tests, lock, mpc, mi, tspec, result,
                   counters, started, wres, wlog, session, trace>>

\* if not qemu.is_alive(): test.result.retry = True
W_NotAlive(th) ==
    /\ MayRetry(th)
    /\ wpc[th] = "is_alive"
    /\ wpc' = [wpc EXCEPT ![th] = "callback_not_alive"]
    /\ alive' = [alive EXCEPT ![th] = "no"]
    /\ result' = [result EXCEPT ![th[1]].retry = TRUE]
    /\ UNCHANGED <<pvars, avars, test_queue, running_tests, lock, mpc, mi, tspec,
                   counters, started, wres, wlog, session, trace>>

\* qemu.is_alive(); qemu.sweb_input(f'{test.name}.sweb\n')
W_Inject(th) ==
    /\ Step(th, "is_alive", "wait_until", "inject")
    /\ alive' = [alive EXCEPT ![th] = "yes"]
    /\ UNCHANGED <<pvars, avars, test_queue, running_tests, lock, mpc, mi, tspec, result,
                   counters, started, wres, wlog, session>>

\* res = qemu.interrupt_watchdog.wait_until(...)
W_Wait(th) ==
    /\ Step(th, "wait_until", "sleep", "wait")
    /\ \E res \in WatchdogStatuses : wres' = [wres EXCEPT ![th] = res]
    /\ UNCHANGED <<pvars, avars, alive, test_queue, running_tests, lock, mpc, mi, tspec, result,
                   counters, started, wlog, session>>

\* time.sleep(1)
W_Settle(th) ==
    /\ Step(th, "sleep", "exit_with", "settle")
    /\ UNCHANGED <<pvars, avars, alive, test_queue, running_tests, lock, mpc, mi, tspec, result,
                   counters, started, wres, wlog, session>>

\* the with block is left: QemuInterface.__exit__
W_Close(th) ==
    /\ Step(th, "exit_with", "parse", "close")
    /\ session' = [session EXCEPT ![th] = FALSE]
    /\ UNCHANGED <<pvars, avars, alive, test_queue, running_tests, lock, mpc, mi, tspec, result,
                   counters, started, wres, wlog>>

\* parser = LogParser(test, config); parser.parse()
W_Parse(th) ==
    /\ Step(th, "parse", "analyze", "parse")
    /\ \E log_data \in ParserLogs(wres[th]) :
         /\ Analyze(SchedConfig, tspec[th[1]], log_data, wres[th]).retry => MayRetry(th)
         /\ wlog' = [wlog EXCEPT ![th] = log_data]
    /\ UNCHANGED <<pvars, avars, alive, test_queue, running_tests, lock, mpc, mi, tspec, result,
                   counters, started, wres, session>>

\* the analysis of the attempt, up to its loop over log_data
W_AnalyzeWatchdog(th) ==
    /\ wpc[th] = "analyze"
    /\ wpc' = [wpc EXCEPT ![th] = "analyze_loop"]
    /\ result' = [result EXCEPT ![th[1]] = AnalyzeWatchdog(tspec[th[1]], wres[th])]
    /\ UNCHANGED <<pvars, avars, alive, test_queue, running_tests, lock, mpc, mi, tspec,
                   counters, started, wres, wlog, session, trace>>

\* the loop of the analysis over log_data
W_AnalyzeLoop(th) ==
    /\ Step(th, "analyze_loop", "callback", "analyze")
    /\ result' = [result EXCEPT ![th[1]] =
                     AnalyzeLoop(@, SchedConfig, wlog[th], tspec[th[1]], 1)]
    /\ wlog' = [wlog EXCEPT ![th] = <<>>]
    /\ UNCHANGED <<pvars, avars, alive, test_queue, running_tests, lock, mpc, mi, tspec,
                   counters, started, wres, session>>

\* variant: the callback takes the lock and leaves running_tests as it is
W_CallbackNoPop(th) ==
    /\ wpc[th] \in {"callback", "callback_not_alive"}
    /\ lock = "free"
    /\ lock' = th
    /\ wpc' = [wpc EXCEPT ![th] = IF @ = "callback" THEN "callback_rest"
                                  ELSE "callback_rest_not_alive"]
    /\ UNCHANGED <<pvars, avars, alive, test_queue, running_tests, mpc, mi, tspec, result,
                   counters, started, wres, wlog, session, trace>>

\* thread_callback: with lock: running_tests.pop(repr(test))
W_CallbackPop(th) ==
    /\ wpc[th] \in {"callback", "callback_not_alive"}
    /\ lock = "free"
    /\ lock' = th
    /\ running_tests' = running_tests \ {th[1]}
    /\ wpc' = [wpc EXCEPT ![th] = IF @ = "callback" THEN "callback_rest"
                                  ELSE "callback_rest_not_alive"]
    /\ UNCHANGED <<pvars, avars, alive, test_queue, mpc, mi, tspec, result, counters, started,
                   wres, wlog, session, trace>>

\* thread_callback after the pop: requeue with a new result, or count the
\* result; then the lock is released
ThreadCallbackRest(test) ==
    IF result[test].retry
    THEN /\ result' = [result EXCEPT ![test] = FreshResult]
         /\ counters' = [counters EXCEPT !.RUNNING = @ - 1]
         /\ test_queue' = Append(test_queue, test)
    ELSE /\ counters' =
               IF result[test].status = "SUCCESS"
               THEN [counters EXCEPT !.SUCCESS = @ + 1, !.RUNNING = @ - 1]
               ELSE [counters EXCEPT !.FAIL = @ + 1, !.RUNNING = @ - 1]
         /\ UNCHANGED <<result, test_queue>>

W_CallbackRest(th) ==
    /\ wpc[th] \in {"callback_rest", "callback_rest_not_alive"}
    /\ lock = th
    /\ lock' = "free"
    /\ ThreadCallbackRest(th[1])
    /\ wpc' = [wpc EXCEPT ![th] = IF @ = "callback_rest" THEN "done"
                                  ELSE "exit_with_not_alive"]
    /\ trace' = [trace EXCEPT ![th] = Append(@, "callback")]
    /\ UNCHANGED <<pvars, avars, alive, running_tests, mpc, mi, tspec, started, wres, wlog,
                   session>>

\* return inside the with block: QemuInterface.__exit__
W_CloseNotAlive(th) ==
    /\ Step(th, "exit_with_not_alive", "done", "close")
    /\ session' = [session EXCEPT ![th] = FALSE]
    /\ UNCHANGED <<pvars, avars, alive, test_queue, running_tests, lock, mpc, mi, tspec, result,
                   counters, started, wres, wlog>>

Worker(th) ==
    \/ W_Open(th)
    \/ W_NotAlive(th)
    \/ W_Inject(th)
    \/ W_Wait(th)
    \/ W_Settle(th)
    \/ W_Close(th)
    \/ W_Parse(th)
    \/ W_AnalyzeWatchdog(th)
    \/ W_AnalyzeLoop(th)
    \/ W_CallbackPop(th)
    \/ W_CallbackRest(th)
    \/ W_CloseNotAlive(th)

Next ==
    \/ M_For
    \/ M_ForEnd
    \/ M_WhileQueue
    \/ M_WhileRunning
    \/ M_Body
    \/ M_IfLen
    \/ M_RunTest
    \/ \E th \in Threads : Worker(th)

Spec == Init /\ [][Next]_vars

\* -------------------------------------------- main.py: main, create_snapshot
\* the specs of the tests main discovers: the last one is disabled
MainSpecOf(t) == [SchedSpecOf(t) EXCEPT !.disabled = (t = NumTests)]

RECURSIVE Enabled(_)
Enabled(ts) ==
    IF ts = <<>> THEN <<>>
    ELSE (IF tspec[Head(ts)].disabled THEN <<>> ELSE <<Head(ts)>>) \o Enabled(Tail(ts))

InitMain ==
    /\ AnalyzeIdle
    /\ test_queue = <<>>
    /\ running_tests = {}
    /\ lock = "free"
    /\ mpc = "idle"
    /\ mi = 0
    /\ tspec = [t \in Tests |-> MainSpecOf(t)]
    /\ result = [t \in Tests |-> FreshResult]
    /\ counters = [RUNNING |-> 0, SUCCESS |-> 0, FAIL |-> 0]
    /\ started = [t \in Tests |-> 0]
    /\ wpc = [th \in Threads |-> "idle"]
    /\ alive = [th \in Threads |-> "unknown"]
    /\ wres = [th \in Threads |-> "WAITING"]
    /\ wlog = [th \in Threads |-> <<>>]
    /\ session = [th \in Threads |-> FALSE]
    /\ trace = [th \in Threads |-> <<>>]
    /\ proc = "get_tests"
    /\ exit_code = "none"
    /\ tests = <<>>
    /\ bsession = FALSE
    /\ balive = "unknown"
    /\ bres = "WAITING"
    /\ savevm = FALSE
    /\ copied = FALSE
    /\ si = 0

\* sys.exit(-1): the exit status is 255
SysExitMinus1 ==
    /\ proc' = "exited"
    /\ exit_code' = "255"

\* get_tests_to_run drops the disabled tests; main exits when none is left
P_GetTests ==
    /\ proc = "get_tests"
    /\ tests' = Enabled([i \in Tests |-> i])
    /\ IF tests' = <<>>
       THEN SysExitMinus1
       ELSE proc' = "boot_open" /\ UNCHANGED exit_code
    /\ UNCHANGED <<avars, svars, bsession, balive, bres, savevm, copied, si>>

\* create_snapshot up to: with QemuInterface(...) as qemu
B_Open ==
    /\ proc = "boot_open"
    /\ proc' = "boot_alive"
    /\ bsession' = TRUE
    /\ UNCHANGED <<avars, svars, exit_code, tests, balive, bres, savevm, copied, si>>

\* if not qemu.is_alive(): sys.exit(-1); the with block closes the session
\* on the way out
B_NotAlive ==
    /\ proc = "boot_alive"
    /\ balive' = "no"
    /\ bsession' = FALSE
    /\ SysExitMinus1
    /\ UNCHANGED <<avars, svars, tests, bres, savevm, copied, si>>

\* res = qemu.interrupt_watchdog.wait_until(...)
B_Wait ==
    /\ proc = "boot_alive"
    /\ balive' = "yes"
    /\ \E res \in WatchdogStatuses : bres' = res
    /\ proc' = "boot_branch"
    /\ UNCHANGED <<avars, svars, exit_code, tests, bsession, savevm, copied, si>>

\* variant: savevm is sent whatever the watchdog returned
B_SavevmAlways ==
    /\ proc = "boot_branch"
    /\ savevm' = TRUE
    /\ proc' = "boot_close"
    /\ UNCHANGED <<avars, svars, exit_code, tests, bsession, balive, bres, copied, si>>

\* else: time.sleep(0.1); qemu.monitor_command(f'savevm {label}\n')
B_Savevm ==
    /\ proc = "boot_branch"
    /\ bres \notin {"TIMEOUT", "STOPPED"}
    /\ savevm' = TRUE
    /\ proc' = "boot_close"
    /\ UNCHANGED <<avars, svars, exit_code, tests, bsession, balive, bres, copied, si>>

\* if res == TIMEOUT or res == STOPPED: bootup_error = True
B_BootupError ==
    /\ proc = "boot_branch"
    /\ bres \in {"TIMEOUT", "STOPPED"}
    /\ proc' = "boot_close"
    /\ UNCHANGED <<avars, svars, exit_code, tests, bsession, balive, bres, savevm, copied, si>>

\* the with block is left: QemuInterface.__exit__
B_Close ==
    /\ proc = "boot_close"
    /\ bsession' = FALSE
    /\ proc' = "boot_after"
    /\ UNCHANGED <<avars, svars, exit_code, tests, balive, bres, savevm, copied, si>>

\* if bootup_error: the log is printed; sys.exit(-1)
B_Exit ==
    /\ proc = "boot_after"
    /\ bres \in {"TIMEOUT", "STOPPED"}
    /\ SysExitMinus1
    /\ UNCHANGED <<avars, svars, tests, bsession, balive, bres, savevm, copied, si>>

\* cp of the image to SWEB-snapshot.qcow2
B_Copy ==
    /\ proc = "boot_after"
    /\ bres \notin {"TIMEOUT", "STOPPED"}
    /\ copied' = TRUE
    /\ proc' = "call_run_tests"
    /\ UNCHANGED <<avars, svars, exit_code, tests, bsession, balive, bres, savevm, si>>

\* run_tests(tests, ...): test_queue = [test for test in tests]
P_RunTests ==
    /\ proc = "call_run_tests"
    /\ proc' = "run_tests"
    /\ test_queue' = tests
    /\ mpc' = "for"
    /\ UNCHANGED <<avars, running_tests, lock, mi, tspec, result, counters, started, wpc,
                   alive, wres, wlog, session, trace, exit_code, tests, bsession, balive,
                   bres, savevm, copied, si>>

\* run_tests has returned: success = not any(...) starts to read the results
P_Returned ==
    /\ proc = "run_tests"
    /\ mpc = "returned"
    /\ proc' = "success"
    /\ si' = 1
    /\ UNCHANGED <<avars, svars, exit_code, tests, bsession, balive, bres, savevm, copied>>

\* variant: only FAILED makes the campaign fail
P_SuccessFailedOnly ==
    /\ proc = "success"
    /\ IF si > Len(tests)
       THEN proc' = "exited" /\ exit_code' = "0" /\ UNCHANGED si
       ELSE IF result[tests[si]].status \in {"FAILED"}
            THEN proc' = "exited" /\ exit_code' = "1" /\ UNCHANGED si
            ELSE si' = si + 1 /\ UNCHANGED <<proc, exit_code>>
    /\ UNCHANGED <<avars, svars, tests, bsession, balive, bres, savevm, copied>>

\* any(test.result.status in (FAILED, PANIC) for test in tests) reads one
\* result at a time and stops at the first hit; sys.exit(not success)
P_Success ==
    /\ proc = "success"
    /\ IF si > Len(tests)
       THEN proc' = "exited" /\ exit_code' = "0" /\ UNCHANGED si
       ELSE IF result[tests[si]].status \in {"FAILED", "PANIC"}
            THEN proc' = "exited" /\ exit_code' = "1" /\ UNCHANGED si
            ELSE si' = si + 1 /\ UNCHANGED <<proc, exit_code>>
    /\ UNCHANGED <<avars, svars, tests, bsession, balive, bres, savevm, copied>>

\* the cp of _run fails (check=True raises CalledProcessError): the thread
\* has no handler, threading.excepthook is exception_hook, and its
\* sys.exit(-1) raises SystemExit in this thread, which ends this thread only
W_OpenRaises(th) ==
    /\ proc # "lib"
    /\ wpc[th] = "open"
    /\ Cardinality({x \in Threads : wpc[x] = "dead"}) < MaxRaises
    /\ wpc' = [wpc EXCEPT ![th] = "dead"]
    /\ UNCHANGED <<avars, pvars, test_queue, running_tests, lock, mpc, mi, tspec, result,
                   counters, started, alive, wres, wlog, session, trace>>

NextMain ==
    \/ P_GetTests
    \/ B_Open
    \/ B_NotAlive
    \/ B_Wait
    \/ B_Savevm
    \/ B_BootupError
    \/ B_Close
    \/ B_Exit
    \/ B_Copy
    \/ P_RunTests
    \/ P_Returned
    \/ P_Success
    \/ \E th \in Threads : W_OpenRaises(th)
    \/ Next

SpecMain == InitMain /\ [][NextMain]_vars

\* ================================================================== claims
TestOf(th) == th[1]

\* the steps of one attempt in the order the design gives them
StepOrder == <<"open", "inject", "wait", "settle", "close", "parse", "analyze", "callback">>

StepRank(name) == CHOOSE i \in 1..Len(StepOrder) : StepOrder[i] = name

InOrder(tr) == \A i, j \in 1..Len(tr) : i < j => StepRank(tr[i]) < StepRank(tr[j])

\* C1: run_tests returns only when every run has a terminal result: when it
\* returns, the queue and the in-flight set are empty and no test is left
\* with the not-yet-run result of a requeue.
C1_ReturnsOnlyWhenAllTerminal ==
    mpc = "returned" =>
        /\ test_queue = <<>>
        /\ running_tests = {}
        /\ \A t \in Tests : result[t].status # "NOT_RUN"

\* C2: at most config.threads runs are in flight (started and not yet
\* removed from running_tests by their callback), requeued runs included.
C2_InFlightAtMostThreads == Cardinality(running_tests) <= NumThreads

C2_Witness ==
    /\ Cardinality(running_tests) = NumThreads
    /\ test_queue # <<>>
    /\ \E t \in running_tests : started[t] > 1

\* C3: after run_tests has returned, no test's result is flagged retry.
C3_NoRetryAfterReturn ==
    mpc = "returned" => \A t \in Tests : ~result[t].retry

\* C4: the steps of every attempt are taken in the order open, inject, wait,
\* settle, close, parse, analyze, callback.
C4_StepsInOrder == \A th \in Threads : InOrder(trace[th])

Count(tr, x) == Cardinality({i \in 1..Len(tr) : tr[i] = x})

\* C5: a VM that is not alive marks the run for retry: the attempt sets
\* retry, injects nothing, neither waits nor parses nor analyses, calls the
\* callback once, and the callback requeues the run with a new result and
\* counts it neither as failed nor as passed.
C5_NotAliveState ==
    \A th \in Threads :
        alive[th] = "no" =>
            /\ wres[th] = "WAITING"
            /\ \A x \in {"inject", "wait", "settle", "parse", "analyze"} :
                   Count(trace[th], x) = 0
            /\ Count(trace[th], "callback") <= 1
            /\ wpc[th] = "done" => Count(trace[th], "callback") = 1
            /\ wpc[th] \in {"callback_not_alive", "callback_rest_not_alive"} =>
                   result[TestOf(th)].retry

C5_NotAliveStep ==
    \A th \in Threads :
        /\ (alive[th] # "no" /\ alive'[th] = "no") => result'[TestOf(th)].retry
        /\ (wpc[th] = "callback_rest_not_alive" /\ wpc'[th] # wpc[th]) =>
               /\ test_queue' = Append(test_queue, TestOf(th))
               /\ result'[TestOf(th)] = FreshResult
               /\ counters'.FAIL = counters.FAIL
               /\ counters'.SUCCESS = counters.SUCCESS

C5_NotAliveRetries == []C5_NotAliveState /\ [][C5_NotAliveStep]_vars

C5_Witness ==
    \E th \in Threads :
        /\ alive[th] = "no"
        /\ wpc[th] = "done"
        /\ started[TestOf(th)] > th[2]

\* C6: a watchdog outcome TIMEOUT or STOPPED does not end the attempt early:
\* it still parses, analyses and calls the callback. The analysis appends the
\* timeout error and sets TIMEOUT exactly when the outcome is TIMEOUT and the
\* spec does not expect a timeout, and appends one error when it is STOPPED.
C6_TimeoutStoppedProceed ==
    \A th \in Threads :
        LET r == result[TestOf(th)]
            timedOut == wres[th] = "TIMEOUT" /\ ~tspec[TestOf(th)].expect_timeout
            stopped == wres[th] = "STOPPED"
        IN  /\ (wpc[th] = "done" /\ wres[th] \in {"TIMEOUT", "STOPPED"}) =>
                   trace[th] = StepOrder
            /\ wpc[th] = "analyze_loop" =>
                   /\ r.errors = (IF stopped THEN <<ErrStopped>> ELSE <<>>)
                                 \o (IF timedOut THEN <<ErrTimeout>> ELSE <<>>)
                   /\ r.status = IF timedOut THEN "TIMEOUT" ELSE "SUCCESS"
            /\ wpc[th] \in {"callback", "callback_rest"} =>
                   /\ Count(r.errors, ErrTimeout) = IF timedOut THEN 1 ELSE 0
                   /\ Count(r.errors, ErrStopped) = IF stopped THEN 1 ELSE 0

C6_Witness ==
    /\ \E th \in Threads : wpc[th] = "done" /\ wres[th] = "TIMEOUT"
                           /\ tspec[TestOf(th)].expect_timeout
    /\ \E th \in Threads : wpc[th] = "done" /\ wres[th] = "TIMEOUT"
                           /\ ~tspec[TestOf(th)].expect_timeout
                           /\ result[TestOf(th)].status = "TIMEOUT"
    /\ \E th \in Threads : wpc[th] = "done" /\ wres[th] = "STOPPED"

\* ------------------------------------------------- claims on the analysis
\* the step taken iterates the bucket of the rule of this mode
Applied(mode) ==
    /\ a_pc = "loop"
    /\ Len(a_seen') = Len(a_seen) + 1
    /\ a_seen'[Len(a_seen')][1] = mode

AppliedLogs == a_seen'[Len(a_seen')][2]

\* the status configured for the rule of this mode ("None": none)
ConfiguredStatus(mode) ==
    a_config[CHOOSE i \in 1..Len(a_config) : a_config[i].mode = mode].set_status

WithStatus(status, set_status) == IF set_status = "None" THEN status ELSE set_status

\* C7: for a disabled spec analyze returns DISABLED with no error and no
\* retry flag, whatever the log, the rules and the watchdog outcome are, and
\* iterates no bucket.
C7_DisabledReturnsDisabled ==
    (a_pc \in {"loop", "done"} /\ a_spec.disabled) =>
        /\ a_pc = "done"
        /\ a_seen = <<>>
        /\ a_result = [status |-> "DISABLED", errors |-> <<>>, retry |-> FALSE]

C7_Witness ==
    /\ a_pc = "done"
    /\ a_spec.disabled
    /\ a_wd = "TIMEOUT"
    /\ ~a_spec.expect_timeout
    /\ \E i \in 1..Len(a_config) : a_config[i].mode = "exit_codes"

\* C8: an exit_codes rule applied while the status is PANIC changes neither
\* the status nor the errors nor the retry flag, whatever the lines are.
C8_PanicDominates ==
    [][(Applied("exit_codes") /\ a_result.status = "PANIC") => a_result' = a_result]_vars

C8_Witness ==
    /\ a_result.status = "PANIC"
    /\ Len(a_seen) = 2
    /\ a_seen[2] = <<"exit_codes", <<<<"x">>>>>>
    /\ ConfiguredStatus("exit_codes") = "FAILED"

\* the exit code a captured line stands for, for the lines that are numbers
CodeOf(line) == IF line = <<"0">> THEN 0 ELSE 1

Numeric(lines) == \A i \in 1..Len(lines) : lines[i] \in {<<"0">>, <<"1">>}

Expected == IF a_spec.expect_exit_codes = <<>> THEN <<0>> ELSE a_spec.expect_exit_codes

RECURSIVE UnexpectedErrors(_)
UnexpectedErrors(lines) ==
    IF lines = <<>> THEN <<>>
    ELSE (IF InSeq(CodeOf(Head(lines)), Expected) THEN <<>>
          ELSE <<<<"Unexpected exit code ", Head(lines)>>>>)
         \o UnexpectedErrors(Tail(lines))

ExpectedCodesError ==
    <<"Expected exit code(s): ",
      IF Expected = <<0>> THEN <<"0">> ELSE <<"1", ",", " ", "2">>>>

\* the exit_codes rule is applied to numbers while the status is not PANIC
ExitCodesChecked ==
    /\ Applied("exit_codes")
    /\ a_result.status # "PANIC"
    /\ AppliedLogs # <<>>
    /\ Numeric(AppliedLogs)

\* C9 as claimed: on a mismatch the status becomes FAILED, or the status the
\* rule configures.
C9_MismatchFails ==
    [][ExitCodesChecked =>
          IF UnexpectedErrors(AppliedLogs) = <<>>
          THEN a_result' = a_result
          ELSE /\ a_result'.status =
                     WithStatus("FAILED", ConfiguredStatus("exit_codes"))
               /\ a_result'.errors =
                     a_result.errors \o UnexpectedErrors(AppliedLogs)
                                     \o <<ExpectedCodesError>>]_vars

\* C9 as amended: on a mismatch the status becomes the status the rule
\* configures and is left as it is when the rule configures none; one error
\* per unexpected code and then one error naming the expected codes are
\* appended; when every code is expected nothing changes.
C9_MismatchSetsConfigured ==
    [][ExitCodesChecked =>
          IF UnexpectedErrors(AppliedLogs) = <<>>
          THEN a_result' = a_result
          ELSE /\ a_result'.status =
                     WithStatus(a_result.status, ConfiguredStatus("exit_codes"))
               /\ a_result'.retry = a_result.retry
               /\ a_result'.errors =
                     a_result.errors \o UnexpectedErrors(AppliedLogs)
                                     \o <<ExpectedCodesError>>]_vars

C9_Witness ==
    /\ a_seen = <<<<"exit_codes", <<<<"1">>, <<"0">>>>>>>>
    /\ a_spec.expect_exit_codes = <<1, 2>>
    /\ ConfiguredStatus("exit_codes") = "None"
    /\ a_result = [status |-> "SUCCESS",
                   errors |-> <<<<"Unexpected exit code ", <<"0">>>>,
                                <<"Expected exit code(s): ", <<"1", ",", " ", "2">>>>>>,
                   retry |-> FALSE]

\* what is left of a text without its last k characters
DropLast(s, k) == IF Len(s) <= k THEN <<>> ELSE SubSeq(s, 1, Len(s) - k)

Marked(line) ==
    /\ Len(line) >= Len(TORTILLAS_EXPECT_PREFIX)
    /\ SubSeq(line, 1, Len(TORTILLAS_EXPECT_PREFIX)) = TORTILLAS_EXPECT_PREFIX

Unmarked(line) == SubSeq(line, Len(TORTILLAS_EXPECT_PREFIX) + 1, Len(line))

\* a line without the marker and without one trailing line terminator
Unterminated(line) ==
    LET rest == Unmarked(line)
    IN  IF rest # <<>> /\ rest[Len(rest)] = NL THEN DropLast(rest, 1) ELSE rest

\* the declared output as the claim reconstructs it
RECURSIVE Declared(_)
Declared(lines) ==
    IF lines = <<>> THEN <<>>
    ELSE (IF Marked(Head(lines)) THEN Unterminated(Head(lines)) ELSE <<>>)
         \o Declared(Tail(lines))

\* the declared output with one character cut from every marked line but
\* the last line of the bucket, which loses two
RECURSIVE Cut(_)
Cut(lines) ==
    IF lines = <<>> THEN <<>>
    ELSE (IF Marked(Head(lines))
          THEN DropLast(Unmarked(Head(lines)), IF Len(lines) = 1 THEN 2 ELSE 1)
          ELSE <<>>)
         \o Cut(Tail(lines))

StdoutErrors(actual) ==
    <<<<"Expected output:\n", Repr(a_spec.expect_stdout)>>,
      <<"Actual output:\n", Repr(actual)>>>>

\* C10 as claimed: the expected output is compared with the marked lines
\* joined after stripping the marker and a trailing line terminator; a
\* difference appends two errors and applies the configured status, equality
\* changes nothing.
C10_StdoutByTerminator ==
    [][(Applied("expect_stdout") /\ a_spec.expect_stdout # <<>>) =>
          IF Declared(AppliedLogs) = a_spec.expect_stdout
          THEN a_result' = a_result
          ELSE /\ Len(a_result'.errors) = Len(a_result.errors) + 2
               /\ a_result'.status =
                     WithStatus(a_result.status, ConfiguredStatus("expect_stdout"))]_vars

\* C10 as amended: the comparison is made only when an expected output is
\* set, with the marked lines joined after removing the marker, the last
\* character of every line that is not the last line of the bucket and the
\* last two characters of the line that is; a difference appends the
\* expected and then the actual output as two errors and applies the
\* configured status, equality changes nothing.
C10_StdoutByCut ==
    [][Applied("expect_stdout") =>
          IF a_spec.expect_stdout = <<>> \/ Cut(AppliedLogs) = a_spec.expect_stdout
          THEN a_result' = a_result
          ELSE /\ a_result'.errors =
                     a_result.errors \o StdoutErrors(Cut(AppliedLogs))
               /\ a_result'.retry = a_result.retry
               /\ a_result'.status =
                     WithStatus(a_result.status, ConfiguredStatus("expect_stdout"))]_vars

\* the expected output is met by lines ending in one and in two terminators
C10_Witness ==
    /\ a_spec.expect_stdout = <<"a", "b">>
    /\ a_seen = <<<<"expect_stdout",
                    <<TORTILLAS_EXPECT_PREFIX \o <<"a", NL>>,
                      TORTILLAS_EXPECT_PREFIX \o <<"b", NL, NL>>>>>>>>
    /\ a_result.errors = <<>>
    /\ a_result.status = "SUCCESS"
    /\ ConfiguredStatus("expect_stdout") = "FAILED"

\* where log_data holds the bucket of a name
BucketOf(name) == CHOOSE i \in 1..Len(a_seen) : a_seen[i][1] = name

\* the rules applied one after the other in the order of the configuration,
\* each to its bucket, a rule without a bucket being passed over
RECURSIVE InDeclaredOrder(_, _)
InDeclaredOrder(r, i) ==
    IF i > Len(a_config) THEN r
    ELSE InDeclaredOrder(IF a_config[i].name \in SeenNames
                         THEN ApplyEntry(r, a_config[i],
                                         a_seen[BucketOf(a_config[i].name)][2], a_spec)
                         ELSE r,
                         i + 1)

\* C11: analyze applies the rules in the order of the configuration,
\* whatever the order of the buckets in log_data is: the result it returns
\* is the one the rules give when applied in declared order.
C11_RulesInDeclaredOrder ==
    (a_pc = "done" /\ ~a_spec.disabled) =>
        a_result = InDeclaredOrder(AnalyzeWatchdog(a_spec, a_wd), 1)

\* C12: a rule of mode add_as_error, add_as_error_join, add_as_error_last or
\* retry applied to a bucket without lines leaves the result as it is.
C12_EmptyBucketInert ==
    [][\A mode \in {"add_as_error", "add_as_error_join", "add_as_error_last", "retry"} :
          (Applied(mode) /\ AppliedLogs = <<>>) => a_result' = a_result]_vars

\* ------------------------------------------------- claims on the campaign
\* the log holds the exit code 0 and no line in any other bucket
OnlyExit0(log) ==
    /\ \E i \in 1..Len(log) : log[i][1] = "exit_codes"
    /\ \A i \in 1..Len(log) :
           log[i][2] = IF log[i][1] = "exit_codes" THEN <<<<"0">>>> ELSE <<>>

CleanSuccess == [status |-> "SUCCESS", errors |-> <<>>, retry |-> FALSE]

\* C13: an attempt of an enabled test that expects exit code 0 and no
\* timeout, whose VM is alive, whose watchdog found the finish interrupt and
\* whose log holds nothing but the exit code 0, is analysed to SUCCESS with
\* no error and no retry, and the callback counts that result as passed
\* without queueing the test again.
C13_EndToEndSuccess ==
    [][\A th \in Threads :
          /\ ( /\ wpc[th] = "analyze_loop" /\ wpc'[th] = "callback"
               /\ alive[th] = "yes" /\ wres[th] = "FOUND"
               /\ ~tspec[TestOf(th)].expect_timeout
               /\ tspec[TestOf(th)].expect_exit_codes = <<>>
               /\ OnlyExit0(wlog[th]) )
             => result'[TestOf(th)] = CleanSuccess
          /\ ( /\ wpc[th] = "callback_rest" /\ wpc'[th] = "done"
               /\ result[TestOf(th)] = CleanSuccess )
             => /\ counters'.SUCCESS = counters.SUCCESS + 1
                /\ test_queue' = test_queue
                /\ result'[TestOf(th)] = CleanSuccess]_vars

BootFailed == balive = "no" \/ bres \in {"TIMEOUT", "STOPPED"}

\* C14: savevm is sent only after the watchdog found the boot interrupt and
\* while the session is open; the image is copied only after savevm and the
\* close of the session; when the VM is not alive or the watchdog times out
\* or stops, savevm is never sent, nothing is copied, no test is started and
\* the process can only exit, with a status that is not zero.
C14_BootState ==
    /\ savevm => bres = "FOUND"
    /\ copied => (savevm /\ ~bsession)
    /\ BootFailed =>
           /\ ~savevm
           /\ ~copied
           /\ mpc = "idle"
           /\ \A t \in Tests : started[t] = 0
           /\ proc \in {"boot_branch", "boot_close", "boot_after", "exited"}
           /\ proc = "exited" => exit_code = "255"

C14_BootStep == (~savevm /\ savevm') => (bsession /\ bsession' /\ bres = "FOUND")

C14_SnapshotBootstrap == []C14_BootState /\ [][C14_BootStep]_vars

C14_Witness ==
    /\ proc = "exited"
    /\ bres = "TIMEOUT"
    /\ exit_code = "255"
    /\ ~bsession

\* the test has a result that its callback has recorded for good
Terminal(t) ==
    /\ started[t] > 0
    /\ wpc[<<t, started[t]>>] = "done"
    /\ result[t].status # "NOT_RUN"
    /\ ~result[t].retry
    /\ ~InSeq(t, test_queue)

AllTerminal == \A i \in 1..Len(tests) : Terminal(tests[i])

\* C15: when the snapshot was made and every run has its terminal result,
\* the process exits with 1 if a terminal status is FAILED or PANIC and with
\* 0 otherwise.
C15_ExitCode ==
    (proc = "exited" /\ copied /\ AllTerminal) =>
        exit_code = IF \E i \in 1..Len(tests) :
                           result[tests[i]].status \in {"FAILED", "PANIC"}
                    THEN "1" ELSE "0"

C15_Witness ==
    /\ proc = "exited"
    /\ copied
    /\ AllTerminal
    /\ exit_code = "1"
    /\ \E i \in 1..Len(tests) : result[tests[i]].status = "PANIC"
    /\ \A i \in 1..Len(tests) : result[tests[i]].status # "FAILED"

\* C16: when a worker thread ends in an exception it does not handle, the
\* whole process exits with a status that is not zero.
C16_RaiseEndsProcess ==
    [][\A th \in Threads :
          (wpc[th] # "dead" /\ wpc'[th] = "dead") =>
              (proc' = "exited" /\ exit_code' \notin {"none", "0"})]_vars

\* --------------------------------------------- further claims on run_tests
\* C17: two attempts of one test never hold an open VM session at the same
\* time, nor use the test's working directory at the same time: the session
\* of an attempt is closed before the test can be started again.
C17_OneSessionPerTest ==
    \A t \in Tests :
        Cardinality({a \in 1..MaxAttempts : session[<<t, a>>] \/ wpc[<<t, a>>] = "parse"}) <= 1

\* the thread has been started for its test and its callback has not yet
\* taken the test out of running_tests
Claims(th) ==
    wpc[th] \in {"open", "is_alive", "wait_until", "sleep", "exit_with", "parse",
                 "analyze", "analyze_loop", "callback", "callback_not_alive"}

\* C18: a test is in at most one of test_queue and running_tests, at most
\* once in test_queue, and claimed by at most one thread, which then has it
\* in running_tests.
C18_QueueState ==
    \A t \in Tests :
        /\ Count(test_queue, t) <= 1
        /\ ~(InSeq(t, test_queue) /\ t \in running_tests)
        /\ Cardinality({a \in 1..MaxAttempts : Claims(<<t, a>>)}) <= 1
        /\ \A a \in 1..MaxAttempts : Claims(<<t, a>>) => t \in running_tests

\* ... it is appended to the queue only by the callback that took it out of
\* running_tests, and put into running_tests only by the step that pops it
C18_QueueStep ==
    \A t \in Tests :
        /\ (~InSeq(t, test_queue) /\ InSeq(t, test_queue')) =>
               /\ t \notin running_tests
               /\ \E a \in 1..MaxAttempts :
                      /\ wpc[<<t, a>>] \in {"callback_rest", "callback_rest_not_alive"}
                      /\ lock = <<t, a>>
                      /\ wpc'[<<t, a>>] # wpc[<<t, a>>]
        /\ (t \notin running_tests /\ t \in running_tests') =>
               /\ test_queue # <<>>
               /\ test_queue[Len(test_queue)] = t
               /\ test_queue' = SubSeq(test_queue, 1, Len(test_queue) - 1)

C18_OneOwner == []C18_QueueState /\ [][C18_QueueStep]_vars

C18_Witness ==
    /\ \E t \in Tests : InSeq(t, test_queue) /\ started[t] = 1
    /\ \E t \in running_tests : started[t] = 1
    /\ Len(test_queue) = 2

\* C19: every queued run is started in the end: run_tests, which starts
\* nothing after it has returned, does not return while a test waits in the
\* queue or a callback is about to put one there.
C19_NoRunLeftBehind ==
    mpc = "returned" =>
        /\ \A t \in Tests : ~InSeq(t, test_queue)
        /\ \A th \in Threads :
               wpc[th] \in {"callback_rest", "callback_rest_not_alive"} =>
                   ~result[TestOf(th)].retry

HasUnparsable(log) ==
    \E i \in 1..Len(log) :
        /\ log[i][1] = "exit_codes"
        /\ \E j \in 1..Len(log[i][2]) : log[i][2][j] \notin {<<"0">>, <<"1">>}

C21_MissingStep ==
    (Applied("exit_codes") /\ AppliedLogs = <<>> /\ a_result.status # "PANIC")
        => /\ a_result'.errors = Append(a_result.errors, <<"Missing exit code!", <<>>>>)
           /\ a_result'.status =
                  (IF a_result.status = "SUCCESS" THEN "FAILED" ELSE a_result.status)
           /\ a_result'.retry = a_result.retry
           /\ a_pc' = "loop"

C21_MissingExitCode == [][C21_MissingStep]_vars

\* an empty exit-code bucket was applied to a TIMEOUT result under a rule
\* configured with another status, and the next rule was applied after it
C21_Witness ==
    /\ a_pc = "loop"
    /\ Len(a_seen) = 2
    /\ a_seen[1] = <<"exit_codes", <<>>>>
    /\ ConfiguredStatus("exit_codes") = "PANIC"
    /\ a_result.status = "TIMEOUT"
    /\ a_result.errors[2] = <<"Missing exit code!", <<>>>>
    /\ Len(a_result.errors) >= 3

\* every bucket analyze has seen is empty and belongs to a rule of these modes
EmptyBucketsOf(modes) ==
    \A i \in 1..Len(a_seen) : a_seen[i][2] = <<>> /\ a_seen[i][1] \in modes

\* C22: expected timeouts pass: for an enabled spec with expect_timeout whose
\* watchdog outcome is TIMEOUT and whose buckets hold no lines, analyze
\* returns SUCCESS with no errors and retry = FALSE, also when an exit-code
\* rule is configured (stated here for the buckets of exit-code and plain
\* error rules, whose only effect on an empty bucket is the missing exit
\* code).
C22_ExpectedTimeoutPasses ==
    (/\ a_pc = "done"
     /\ ~a_spec.disabled
     /\ a_spec.expect_timeout
     /\ a_wd = "TIMEOUT"
     /\ EmptyBucketsOf({"exit_codes", "add_as_error"}))
        => a_result = [status |-> "SUCCESS", errors |-> <<>>, retry |-> FALSE]

====
